---- MODULE Spec2Model ----
(***************************************************************************)
(* ts-yreducer: the useYReducer hook (src/index.ts) over React's useState   *)
(* cell, together with the reducers the repository ships as examples (the   *)
(* README counter and todo reducers, and the counter reducer of the hook's  *)
(* doc comment).                                                            *)
(*                                                                          *)
(* One container instance is modelled.  Its host cell is React's useState   *)
(* hook slot: setState(updater) appends the update to the slot's queue, and *)
(* the next render of the component, which is the next call of useYReducer, *)
(* runs the queued updates in order over the committed value and commits    *)
(* the result.                                                              *)
(*                                                                          *)
(* The source does not decide what the host does with an updater that       *)
(* throws, so the model takes every outcome a host can produce.  The host   *)
(* may run the updater inside setState: the exception then leaves dispatch  *)
(* and the update is not queued.  Or it queues the update and the exception *)
(* leaves the useYReducer call that processes it: that call commits         *)
(* nothing, and the host either tears the component down (what React does)  *)
(* or drops the updates of that call and keeps the component mounted.  When *)
(* the updater returns normally, the moment the host runs it cannot be      *)
(* observed, and the update is modelled as queued.                          *)
(*                                                                          *)
(* Objects have identity in the program (=== on state objects), so a state  *)
(* object carries a ref: the caller's initial objects have refs 1..NumInit, *)
(* the object created by the reducer for the k-th dispatch has NumInit + k. *)
(***************************************************************************)
EXTENDS Integers, Sequences, FiniteSets

VARIABLES
  app,            \* which example application uses the container
  memoizedState,  \* the cell's committed value (useState's current state)
  queue,          \* updates passed to setState and not yet processed
  fns,            \* the [state, dispatch] pairs the caller still holds
  callArgs,       \* the reducer argument of the calls that returned them
  lastInit,       \* the initialState argument of the last useYReducer call
  status,         \* "mounted", or "failed" once the host has torn it down
  thrown,         \* the exceptions raised so far: where, for which dispatch
  ndispatch,      \* number of dispatch calls made
  expected,       \* the left fold of the dispatched actions over s0
  throwers,       \* the dispatches whose reducer throws, with the error
  s0,             \* the initialState of the first useYReducer call
  scen            \* progress along the scenario of the application

vars == <<app, memoizedState, queue, fns, callArgs, lastInit, status, thrown,
          ndispatch, expected, throwers, s0, scen>>

\* Bounds of the model.
MaxDispatch == 4
MaxQueue == 2
NumInit == 2

Apps == {"counter", "todo"}

\* The caller's initial state objects (README, CounterComponent and
\* TodoComponent), and a second object of each shape.
InitObjs(a) ==
  IF a = "counter"
  THEN {[ref |-> 1, count |-> 0], [ref |-> 2, count |-> 3]}
  ELSE {[ref |-> 1, todos |-> <<>>, filter |-> "all"],
        [ref |-> 2, todos |-> <<"y">>, filter |-> "completed"]}

\* The reducers of each shape of state.
Reducers(a) ==
  IF a = "counter" THEN {"counterReducer", "counterReducerDoc"}
  ELSE {"todoReducer"}

\* The actions dispatched: the variants of the action unions, with the
\* payloads of the scenarios, the falsy payloads, and a discriminant that no
\* case handles.
Actions(a) ==
  IF a = "counter"
  THEN {[key |-> "increment", payload |-> 1],
        [key |-> "increment", payload |-> 0],
        [key |-> "decrement", payload |-> 1],
        [key |-> "reset"],
        [key |-> "other"]}
  ELSE {[key |-> "add", payload |-> "x"],
        [key |-> "add", payload |-> ""],
        [key |-> "remove", payload |-> 0],
        [key |-> "remove", payload |-> 1],
        [key |-> "setFilter", payload |-> "active"],
        [key |-> "other"]}

\* const { key, payload } = action: payload is undefined when absent.
HasPayload(action) == "payload" \in DOMAIN action

\* !payload, for a number payload and for a string payload.
NotNum(action) == ~HasPayload(action) \/ action.payload = 0
NotStr(action) == ~HasPayload(action) \/ action.payload = ""

\* The outcome of a call: the value returned, or the Error thrown (its
\* message).  seq names the dispatch of the update that threw.
Return(s) == [ok |-> TRUE, state |-> s, seq |-> 0, error |-> ""]
Throw(s, message) == [ok |-> FALSE, state |-> s, seq |-> 0, error |-> message]

\* Mutant: decrement adds its payload.
counterReducer_DecAdds(state, action, fresh) ==
  CASE action.key = "increment" ->
         IF NotNum(action) THEN Return(state)
         ELSE Return([ref |-> fresh, count |-> state.count + action.payload])
    [] action.key = "decrement" ->
         IF NotNum(action) THEN Return(state)
         ELSE Return([ref |-> fresh, count |-> state.count + action.payload])
    [] action.key = "reset" -> Return([ref |-> fresh, count |-> 0])
    [] OTHER -> Return(state)

\* Mutant: the default branch and the payload checks return a copy,
\* { ...state }.
counterReducer_Copies(state, action, fresh) ==
  LET copy == Return([ref |-> fresh, count |-> state.count])
  IN CASE action.key = "increment" ->
            IF NotNum(action) THEN copy
            ELSE Return([ref |-> fresh,
                         count |-> state.count + action.payload])
       [] action.key = "decrement" ->
            IF NotNum(action) THEN copy
            ELSE Return([ref |-> fresh,
                         count |-> state.count - action.payload])
       [] action.key = "reset" -> Return([ref |-> fresh, count |-> 0])
       [] OTHER -> copy

\* The counter reducer of the README.  fresh is the identity of an object
\* that the call creates.
counterReducer(state, action, fresh) ==
  CASE action.key = "increment" ->
         IF NotNum(action) THEN Return(state)
         ELSE Return([ref |-> fresh, count |-> state.count + action.payload])
    [] action.key = "decrement" ->
         IF NotNum(action) THEN Return(state)
         ELSE Return([ref |-> fresh, count |-> state.count - action.payload])
    [] action.key = "reset" -> Return([ref |-> fresh, count |-> 0])
    [] OTHER -> Return(state)

\* The counter reducer of the doc comment of useYReducer: no payload check.
counterReducerDoc(state, action, fresh) ==
  CASE action.key = "increment" ->
         Return([ref |-> fresh, count |-> state.count + action.payload])
    [] action.key = "decrement" ->
         Return([ref |-> fresh, count |-> state.count - action.payload])
    [] action.key = "reset" -> Return([ref |-> fresh, count |-> 0])
    [] OTHER -> Return(state)

\* state.todos.filter((_, idx) => idx !== payload), idx counted from 0.
FilterOut(todos, payload) ==
  IF payload >= 0 /\ payload < Len(todos)
  THEN SubSeq(todos, 1, payload) \o SubSeq(todos, payload + 2, Len(todos))
  ELSE todos

\* The todo reducer of the README.
todoReducer(state, action, fresh) ==
  CASE action.key = "add" ->
         IF NotStr(action) THEN Throw(state, "Todo is required")
         ELSE Return([ref |-> fresh,
                      todos |-> Append(state.todos, action.payload),
                      filter |-> state.filter])
    [] action.key = "remove" ->
         IF NotNum(action) THEN Throw(state, "Index is required")
         ELSE Return([ref |-> fresh,
                      todos |-> FilterOut(state.todos, action.payload),
                      filter |-> state.filter])
    [] action.key = "setFilter" ->
         IF NotStr(action) THEN Throw(state, "Filter key is required")
         ELSE Return([ref |-> fresh,
                      todos |-> state.todos,
                      filter |-> action.payload])
    [] OTHER -> Return(state)

\* reducer(prevState, action) for the reducer a closure holds.
Reduce(reducer, state, action, fresh) ==
  CASE reducer = "counterReducer" -> counterReducer(state, action, fresh)
    [] reducer = "counterReducerDoc" -> counterReducerDoc(state, action, fresh)
    [] OTHER -> todoReducer(state, action, fresh)

\* The identity of the object created for the k-th dispatch.
Fresh(k) == NumInit + k

\* Mutant: dispatch reduces the state of its own render,
\* setState(reducer(state, action)).
DispatchUpdate_Stale(fn, action, k) ==
  LET r == Reduce(fn.reducer, fn.state, action, Fresh(k))
  IN [ok |-> r.ok, error |-> r.error,
      update |-> [kind |-> "value", reducer |-> fn.reducer,
                  action |-> action, seq |-> k, value |-> r.state]]

\* Mutant: dispatch reads the reducer of the latest call instead of the one
\* it closed over.
DispatchUpdate_Latest(fn, action, k) ==
  [ok |-> TRUE, error |-> "",
   update |-> [kind |-> "updater", reducer |-> callArgs[Len(callArgs)],
               action |-> action, seq |-> k]]

\* The argument dispatch passes to setState: the updater
\* (prevState) => reducer(prevState, action), closed over the reducer of the
\* call that created this dispatch function.  Building it runs no reducer.
DispatchUpdate(fn, action, k) ==
  [ok |-> TRUE, error |-> "",
   update |-> [kind |-> "updater", reducer |-> fn.reducer,
               action |-> action, seq |-> k]]

\* Mutant: the updater catches what the reducer throws and keeps prevState.
Updater_Catch(update, prevState) ==
  LET r == Reduce(update.reducer, prevState, update.action, Fresh(update.seq))
  IN IF r.ok THEN r ELSE Return(prevState)

\* Mutant: the updater catches what the reducer throws and returns a copy,
\* { ...prevState }.
Updater_CatchCopy(update, prevState) ==
  LET r == Reduce(update.reducer, prevState, update.action, Fresh(update.seq))
  IN IF r.ok THEN r
     ELSE Return([prevState EXCEPT !.ref = Fresh(update.seq)])

\* The updater the host calls: (prevState) => reducer(prevState, action).
\* What the reducer throws leaves the updater as it is.
Updater(update, prevState) ==
  Reduce(update.reducer, prevState, update.action, Fresh(update.seq))

\* React applies one queued update to the value so far: an updater function
\* is called with it, any other argument replaces it.
basicStateReducer(state, update) ==
  IF update.kind = "updater"
  THEN [Updater(update, state) EXCEPT !.seq = update.seq]
  ELSE Return(update.value)

\* The host processes the queue in order during a render.  The first update
\* that throws ends the processing with its exception.
RECURSIVE ProcessQueue(_, _)
ProcessQueue(state, q) ==
  IF q = <<>> THEN Return(state)
  ELSE LET r == basicStateReducer(state, Head(q))
       IN IF r.ok THEN ProcessQueue(r.state, Tail(q))
          ELSE [r EXCEPT !.state = state]

\* Mutant: every call reads initialState again.
useState_Reset(first, initialState, committed, q) ==
  ProcessQueue(initialState, q)

\* useState(initialState): the initial value is used by the first call only,
\* later calls yield the committed value with the queue processed.
useState(first, initialState, committed, q) ==
  IF first THEN Return(initialState) ELSE ProcessQueue(committed, q)

\* Mutant: the dispatch function is memoized, one function for all calls.
NewDispatch_Stable(held) == IF held = <<>> THEN 1 ELSE held[1].id

\* const dispatch = (action) => {...}: every call creates a function, an
\* object distinct from every function the caller holds.  Its identity is
\* the least one not in use.
NewDispatch(held) ==
  LET used == {held[i].id : i \in 1..Len(held)}
  IN CHOOSE n \in 1..(Len(held) + 1) :
       n \notin used /\ \A m \in 1..(n - 1) : m \in used

\* An exception that left the call named by site, raised by the updater of
\* dispatch r.seq.
Raised(site, r) == [site |-> site, seq |-> r.seq, error |-> r.error]

\* The scenarios of the two applications.
Script(a) ==
  IF a = "counter"
  THEN <<[key |-> "increment", payload |-> 1],
         [key |-> "increment", payload |-> 1],
         [key |-> "decrement", payload |-> 1],
         [key |-> "reset"]>>
  ELSE <<[key |-> "add", payload |-> "x"],
         [key |-> "remove", payload |-> 0],
         [key |-> "setFilter", payload |-> "active"]>>

ScriptReducer(a) == IF a = "counter" THEN "counterReducer" ELSE "todoReducer"

\* The first call of useYReducer(initialState, reducer).
Init ==
  /\ app \in Apps
  /\ s0 \in InitObjs(app)
  /\ \E reducer \in Reducers(app) :
       /\ memoizedState = useState(TRUE, s0, s0, <<>>).state
       /\ fns = <<[id |-> NewDispatch(<<>>), reducer |-> reducer,
                   state |-> memoizedState]>>
       /\ callArgs = <<reducer>>
  /\ lastInit = s0
  /\ queue = <<>>
  /\ status = "mounted"
  /\ thrown = {}
  /\ ndispatch = 0
  /\ expected = Return(s0)
  /\ throwers = {}
  /\ scen = IF s0.ref = 1 THEN 0 ELSE -1

\* The caller keeps what the first call returned (a closure captured when
\* the component mounted) and what the latest call returned.
Keep(held, new) == <<held[1], new>>

\* A later call of useYReducer(initialState, reducer): a render of the
\* component.  When a queued updater throws, the exception leaves the call,
\* which returns and commits nothing; the host then either tears the
\* component down, the queue as it was, or keeps it mounted and drops the
\* updates it was processing.
useYReducer(initialState, reducer) ==
  /\ status = "mounted"
  /\ LET r == useState(FALSE, initialState, memoizedState, queue)
         ret == [id |-> NewDispatch(fns), reducer |-> reducer,
                 state |-> r.state]
     IN IF r.ok
        THEN /\ memoizedState' = r.state
             /\ queue' = <<>>
             /\ fns' = Keep(fns, ret)
             /\ callArgs' = Keep(callArgs, reducer)
             /\ UNCHANGED <<status, thrown>>
        ELSE /\ thrown' = thrown \cup {Raised("render", r)}
             /\ \/ status' = "failed" /\ queue' = queue
                \/ status' = status /\ queue' = <<>>
             /\ UNCHANGED <<memoizedState, fns, callArgs>>
  /\ lastInit' = initialState
  /\ UNCHANGED <<app, ndispatch, expected, throwers, s0, scen>>

\* What a dispatch call leaves in the variables that follow the dispatched
\* actions: the fold, the dispatches whose reducer throws, the scenario.
\* The reducers of the repository throw or not by the action alone.
Dispatched(i, action, k) ==
  LET e == Reduce(callArgs[i], expected.state, action, Fresh(k))
      f == Reduce(callArgs[i], memoizedState, action, Fresh(k))
  IN /\ ndispatch' = k
     /\ expected' = IF expected.ok THEN [e EXCEPT !.seq = k] ELSE expected
     /\ throwers' = IF f.ok THEN throwers
                    ELSE throwers \cup {[seq |-> k, error |-> f.error]}
     /\ scen' = IF /\ scen >= 0
                   /\ scen < Len(Script(app))
                   /\ action = Script(app)[scen + 1]
                   /\ callArgs[i] = ScriptReducer(app)
                THEN scen + 1 ELSE -1

\* dispatch(action), through the dispatch function returned by call i, with
\* a host whose setState queues the update.  An exception raised while the
\* argument of setState is evaluated would leave dispatch before setState is
\* called; evaluating the arrow function of the source raises none.
dispatch(i, action) ==
  /\ ndispatch < MaxDispatch
  /\ Len(queue) < MaxQueue
  /\ LET k == ndispatch + 1
         arg == DispatchUpdate(fns[i], action, k)
     IN /\ IF arg.ok
           THEN queue' = Append(queue, arg.update) /\ thrown' = thrown
           ELSE /\ queue' = queue
                /\ thrown' = thrown \cup
                     {[site |-> "dispatch", seq |-> k, error |-> arg.error]}
        /\ Dispatched(i, action, k)
  /\ UNCHANGED <<app, memoizedState, fns, callArgs, lastInit, status, s0>>

\* dispatch(action) with a host whose setState runs the updater at once, on
\* the latest value of the cell, and the updater throws: the exception
\* leaves setState and so dispatch, nothing is queued or committed.
dispatchThrows(i, action) ==
  /\ ndispatch < MaxDispatch
  /\ status = "mounted"
  /\ LET k == ndispatch + 1
         arg == DispatchUpdate(fns[i], action, k)
         latest == ProcessQueue(memoizedState, queue)
         r == basicStateReducer(latest.state, arg.update)
     IN /\ arg.ok
        /\ latest.ok
        /\ ~r.ok
        /\ thrown' = thrown \cup {Raised("dispatch", r)}
        /\ Dispatched(i, action, k)
  /\ UNCHANGED <<app, memoizedState, queue, fns, callArgs, lastInit, status,
                 s0>>

Next ==
  \/ \E o \in InitObjs(app), reducer \in Reducers(app) :
       useYReducer(o, reducer)
  \/ \E i \in 1..Len(fns), action \in Actions(app) : dispatch(i, action)
  \/ \E i \in 1..Len(fns), action \in Actions(app) :
       dispatchThrows(i, action)

Spec == Init /\ [][Next]_vars

(***************************************************************************)
(* The claims.                                                             *)
(***************************************************************************)

\* What the next useYReducer call yields: the committed value with the
\* pending updates applied.
Pending == ProcessQueue(memoizedState, queue)

\* The same after a step.
PendingNext == ProcessQueue(memoizedState', queue')

Last(q) == q[Len(q)]

\* C1: for every initial state and every sequence of dispatched actions whose
\* reducers return normally, the state held once the updates are committed
\* is the left fold of the actions over the initial state, however the
\* dispatches are grouped into commits.
C1_FoldLeft ==
  (status = "mounted" /\ expected.ok) =>
     /\ Pending.ok
     /\ Pending.state = expected.state
     /\ queue = <<>> => memoizedState = expected.state

\* C1 witness: three or more dispatches, all committed, the last one having
\* produced the held state.
C1_Witness ==
  /\ status = "mounted"
  /\ expected.ok
  /\ queue = <<>>
  /\ ndispatch >= 3
  /\ memoizedState.ref = Fresh(ndispatch)

\* The update of dispatch k is pending.
IsPending(k) == \E n \in 1..Len(queue) : queue[n].seq = k

C4_InitialStateOnce ==
  (Len(fns) > 1 /\ lastInit # s0) =>
     /\ memoizedState # lastInit
     /\ Last(fns).state # lastInit
     /\ ndispatch = 0 => memoizedState = s0
     /\ (status = "mounted" /\ queue = <<>> /\ expected.ok) =>
          Last(fns).state = expected.state

\* C4 witness: a later call passed another initialState, after dispatches.
C4_Witness ==
  /\ Len(fns) > 1
  /\ lastInit # s0
  /\ status = "mounted"
  /\ queue = <<>>
  /\ ndispatch >= 2
  /\ memoizedState.ref > NumInit

\* The states of the todo scenario, after each of its dispatches.
TodoExpected ==
  <<[todos |-> <<"x">>, filter |-> "all"],
    [todos |-> <<>>, filter |-> "all"],
    [todos |-> <<>>, filter |-> "active"]>>

\* C5: the todo scenario: from {todos:[],filter:"all"}, add "x", remove 0 and
\* setFilter "active" yield the states of TodoExpected.
C5_TodoScenario ==
  (app = "todo" /\ scen >= 1) =>
     /\ status = "mounted"
     /\ Pending.ok
     /\ Pending.state.todos = TodoExpected[scen].todos
     /\ Pending.state.filter = TodoExpected[scen].filter

\* The counts of the counter scenario, after each of its dispatches.
CounterExpected == <<1, 2, 1, 0>>

\* C6: the counter scenario: from {count:0}, increment 1, increment 1,
\* decrement 1 and reset yield the counts 1, 2, 1 and 0.
C6_CounterScenario ==
  (app = "counter" /\ scen >= 1) =>
     /\ Pending.ok
     /\ Pending.state.count = CounterExpected[scen]
     /\ queue = <<>> => memoizedState.count = CounterExpected[scen]

\* C6 witness: the four dispatches of the scenario, committed.
C6_Witness ==
  /\ app = "counter"
  /\ scen = 4
  /\ queue = <<>>
  /\ memoizedState.count = 0

\* The actions for which a reducer returns its input state: a discriminant
\* no case handles, and for the README counter reducer a falsy payload.
ReturnsInput(reducer, action) ==
  \/ action.key = "other"
  \/ /\ reducer = "counterReducer"
     /\ action.key \in {"increment", "decrement"}
     /\ NotNum(action)

\* C7: dispatching an action for which the reducer returns its input state
\* leaves the state the same object: the dispatch does not change what the
\* next call yields, and a call that commits only such updates leaves the
\* held state as it is.
C7_ReturnsInputUnchanged ==
  [][/\ \A i \in 1..Len(fns), action \in Actions(app) :
          (dispatch(i, action) /\ ReturnsInput(callArgs[i], action))
             => PendingNext = Pending
     /\ (/\ queue # <<>>
         /\ queue' = <<>>
         /\ \A n \in 1..Len(queue) :
              ReturnsInput(queue[n].reducer, queue[n].action))
          => memoizedState' = memoizedState]_vars

\* C7 witness: two or more dispatches, all committed, and the held state is
\* still the initial object.
C7_Witness ==
  /\ app = "counter"
  /\ ndispatch >= 2
  /\ queue = <<>>
  /\ Len(fns) = 2
  /\ status = "mounted"
  /\ memoizedState = s0

\* C8 as claimed: every useYReducer call returns the same dispatch function.
C8_Original ==
  \A i, j \in 1..Len(fns) : fns[i].id = fns[j].id

\* C8 as amended: every useYReducer call returns a new dispatch function,
\* distinct from the ones returned before.
C8_NewDispatchEachCall ==
  \A i, j \in 1..Len(fns) : i # j => fns[i].id # fns[j].id

\* C8 witness: the first call and a later call have returned, with
\* dispatches made.
C8_Witness ==
  /\ Len(fns) = 2
  /\ ndispatch > 0
  /\ fns[1].id # fns[2].id

\* C9: a call with another reducer commits nothing by itself, and a dispatch
\* function applies the reducer passed to the call that returned it.
C9_ClosedOverReducer ==
  [][/\ \A i \in 1..Len(fns), action \in Actions(app) :
          dispatch(i, action) =>
             /\ Len(queue') = Len(queue) + 1
             /\ Last(queue').reducer = callArgs[i]
             /\ Last(queue').action = action
     /\ (callArgs' # callArgs /\ queue = <<>>) => memoizedState' = memoizedState
     /\ \A n \in 1..Len(queue) :
          n <= Len(queue') => queue'[n] = queue[n]]_vars

\* C9 witness: the latest call passed another reducer than the first, and
\* an action dispatched since through the first dispatch function is pending
\* with the first reducer.
C9_Witness ==
  /\ Len(fns) = 2
  /\ callArgs[1] # callArgs[2]
  /\ queue # <<>>
  /\ queue[1].reducer = callArgs[1]
  /\ memoizedState.ref > NumInit

\* C10: a dispatch function reduces the latest value of the cell, pending
\* updates included, not the state returned with it: after dispatch(action),
\* what the next call yields is the reducer applied to what it would have
\* yielded before.
C10_NoStaleSnapshot ==
  [][\A i \in 1..Len(fns), action \in Actions(app) :
        (dispatch(i, action) /\ Pending.ok) =>
           LET r == Reduce(callArgs[i], Pending.state, action,
                           Fresh(ndispatch + 1))
           IN /\ PendingNext.ok = r.ok
              /\ r.ok => PendingNext.state = r.state]_vars

\* C10 witness: the first dispatch function is used after a commit has
\* replaced the state returned with it, with an update already pending.
C10_Witness ==
  /\ Len(fns) = 2
  /\ callArgs[1] # callArgs[2]
  /\ status = "mounted"
  /\ fns[1].state # memoizedState
  /\ Len(queue) = 2
  /\ queue[2].reducer = callArgs[1]

====
